---- MODULE Spec2Model ----
(***************************************************************************)
(* Model of the two conversion scripts of the repository:                  *)
(*   Procedure A: convert_tflite.py   convert_tflite_to_tfjs()             *)
(*   Procedure B: manual_convert.py   create_tfjs_model()                  *)
(* The state is the part of the file system the scripts touch, plus the    *)
(* position and the locals of the script that is running.  Every I/O call  *)
(* of a script is one step; a call that raises ends the run (the scripts   *)
(* catch nothing).                                                         *)
(*                                                                         *)
(* numpy arrays are records [shape, data].  data is a sequence of pieces   *)
(* [src, from, n]: n consecutive values, starting at value number from, of *)
(* the stream the random generator produces from seed src (src 0: values   *)
(* not produced by a run).  Two arrays with the same pieces hold the same  *)
(* elements.                                                               *)
(***************************************************************************)
EXTENDS Integers, Sequences, FiniteSets, TLC

\* Number of distinct states numpy's global generator can start a run in
\* (it is seeded from the system's entropy when the process starts).
MaxSeed == 2

Seeds == 1..MaxSeed

-----------------------------------------------------------------------------
(* State *)

VARIABLES
  modelFile,  \* ./assets/64x3-cards.tflite
  outDir,     \* ./assets/cards_model: "absent", "dir", or "file" (not a directory)
  files,      \* the files of ./assets/cards_model, by name
  locked,     \* the names open(name, 'w') raises OSError for
  proc,       \* the script that runs or ran last: "A", "B", or "none"
  pc,         \* the call the running script is at
  details,    \* input_details / output_details
  weights,    \* conv_kernel, conv_bias, dense_kernel, dense_bias, all_weights
  out,        \* the lines printed by the run
  exc,        \* the call whose exception ended the run, or "none"
  fs0,        \* history: outDir and files as the run found them
  prev        \* history: the last completed run, what it left, and the
              \* completed run it came after

vars == <<modelFile, outDir, files, locked, proc, pc, details, weights, out,
          exc, fs0, prev>>

-----------------------------------------------------------------------------
(* Paths *)

JsonName == "model.json"
BinName == "group1-shard1of1.bin"
\* A file of the output directory that neither script names.
StrayName == "notes.txt"

FileNames == {JsonName, BinName, StrayName}

-----------------------------------------------------------------------------
(* numpy *)

RECURSIVE Prod(_)
Prod(shape) == IF shape = <<>> THEN 1 ELSE Head(shape) * Prod(Tail(shape))

RECURSIVE NumElements(_)
NumElements(data) ==
  IF data = <<>> THEN 0 ELSE Head(data).n + NumElements(Tail(data))

\* Faulty variant: np.zeros(1) where the empty array is meant.
EmptyArray_OneZero ==
  [shape |-> <<1>>, data |-> <<[src |-> 0, from |-> 0, n |-> 1]>>]

\* np.array([], dtype=np.float32)
EmptyArray == [shape |-> <<0>>, data |-> <<>>]

\* np.random.randn(*shape).astype(np.float32) * 0.1 by the generator seeded
\* with seed, drawn values having been consumed before
Randn(shape, seed, drawn) ==
  [shape |-> shape,
   data |-> <<[src |-> seed, from |-> drawn, n |-> Prod(shape)]>>]

\* ndarray.flatten(): one dimension, the elements in row-major order
Flatten(a) == [shape |-> <<NumElements(a.data)>>, data |-> a.data]

RECURSIVE ConcatData(_)
ConcatData(arrays) ==
  IF arrays = <<>> THEN <<>>
  ELSE Head(arrays).data \o ConcatData(Tail(arrays))

\* np.concatenate of one-dimensional arrays
Concatenate(arrays) ==
  [shape |-> <<NumElements(ConcatData(arrays))>>, data |-> ConcatData(arrays)]

\* ndarray.tofile(path): the raw elements, 4 bytes each, no shape
Tofile(a) == [kind |-> "bin", data |-> a.data]

\* os.path.getsize of a file written by tofile with float32 elements
Getsize(f) == 4 * NumElements(f.data)

-----------------------------------------------------------------------------
(* The descriptors *)

EmptyObject == <<>>

WeightsManifestA ==
  << [paths |-> <<BinName>>, weights |-> <<>>] >>

ModelJsonA ==
  [format |-> "graph-model",
   generatedBy |-> "python-converter",
   convertedBy |-> "Custom Script 1.0.0",
   signature |-> EmptyObject,
   userDefinedMetadata |-> EmptyObject,
   modelTopology |-> [node |-> <<>>,
                      library |-> EmptyObject,
                      versions |-> [producer |-> 1]],
   weightsManifest |-> WeightsManifestA]

Dim(sizes) == [i \in DOMAIN sizes |-> [size |-> sizes[i]]]

\* Faulty variant: the input shape of the signature is taken from the probe.
SignatureB_FromDetails ==
  LET shape == IF "input" \in DOMAIN details
               THEN details.input.shape ELSE <<1, 70, 70, 1>>
  IN [inputs |-> [input |->
         [name |-> "input:0", dtype |-> "DT_FLOAT",
          tensorShape |->
            [dim |-> Dim([i \in DOMAIN shape |-> ToString(shape[i])])]]],
      outputs |-> [output |->
         [name |-> "output:0", dtype |-> "DT_FLOAT",
          tensorShape |-> [dim |-> Dim(<<"1", "52">>)]]]]

SignatureB ==
  [inputs |-> [input |->
      [name |-> "input:0", dtype |-> "DT_FLOAT",
       tensorShape |-> [dim |-> Dim(<<"1", "70", "70", "1">>)]]],
   outputs |-> [output |->
      [name |-> "output:0", dtype |-> "DT_FLOAT",
       tensorShape |-> [dim |-> Dim(<<"1", "52">>)]]]]

\* Faulty variant: the node the output refers to is defined.
NodesB_WithDense ==
  << [name |-> "input",
      op |-> "Placeholder",
      attr |-> [dtype |-> [type |-> "DT_FLOAT"],
                shape |-> [shape |-> [dim |-> Dim(<<"1", "70", "70", "1">>)]]]],
     [name |-> "dense/BiasAdd",
      op |-> "BiasAdd",
      input |-> <<"input">>,
      attr |-> [T |-> [type |-> "DT_FLOAT"]]],
     [name |-> "output",
      op |-> "Identity",
      input |-> <<"dense/BiasAdd">>,
      attr |-> [T |-> [type |-> "DT_FLOAT"]]] >>

NodesB ==
  << [name |-> "input",
      op |-> "Placeholder",
      attr |-> [dtype |-> [type |-> "DT_FLOAT"],
                shape |-> [shape |-> [dim |-> Dim(<<"1", "70", "70", "1">>)]]]],
     [name |-> "output",
      op |-> "Identity",
      input |-> <<"dense/BiasAdd">>,
      attr |-> [T |-> [type |-> "DT_FLOAT"]]] >>

\* Faulty variant: the manifest leaves out the last tensor of the blob.
WeightsManifestB_NoDenseBias ==
  << [paths |-> <<BinName>>,
      weights |-> <<
        [name |-> "conv2d/kernel", shape |-> <<3, 3, 1, 32>>, dtype |-> "float32"],
        [name |-> "conv2d/bias", shape |-> <<32>>, dtype |-> "float32"],
        [name |-> "dense/kernel", shape |-> <<1152, 52>>, dtype |-> "float32"] >>] >>

WeightsManifestB ==
  << [paths |-> <<BinName>>,
      weights |-> <<
        [name |-> "conv2d/kernel", shape |-> <<3, 3, 1, 32>>, dtype |-> "float32"],
        [name |-> "conv2d/bias", shape |-> <<32>>, dtype |-> "float32"],
        [name |-> "dense/kernel", shape |-> <<1152, 52>>, dtype |-> "float32"],
        [name |-> "dense/bias", shape |-> <<52>>, dtype |-> "float32"] >>] >>

ModelJsonB ==
  [format |-> "graph-model",
   generatedBy |-> "manual-converter",
   convertedBy |-> "TensorFlow.js Converter 4.0.0",
   signature |-> SignatureB,
   userDefinedMetadata |-> [inputShape |-> "[1,70,70,1]",
                            outputShape |-> "[1,52]",
                            classes |-> "52"],
   modelTopology |-> [node |-> NodesB,
                      library |-> EmptyObject,
                      versions |-> [producer |-> 1]],
   weightsManifest |-> WeightsManifestB]

\* with open(path, 'w') as f: json.dump(doc, f, indent=2)
JsonDump(doc) == [kind |-> "json", doc |-> doc]

-----------------------------------------------------------------------------
(* The reader of the artifact pair *)

\* All weight entries of a manifest, group after group.
RECURSIVE ManifestWeights(_)
ManifestWeights(manifest) ==
  IF manifest = <<>> THEN <<>>
  ELSE Head(manifest).weights \o ManifestWeights(Tail(manifest))

RECURSIVE DeclaredElements(_)
DeclaredElements(entries) ==
  IF entries = <<>> THEN 0
  ELSE Prod(Head(entries).shape) + DeclaredElements(Tail(entries))

Min(a, b) == IF a < b THEN a ELSE b

\* The cnt elements of data that start at element off.
RECURSIVE Slice(_, _, _)
Slice(data, off, cnt) ==
  IF cnt = 0 \/ data = <<>> THEN <<>>
  ELSE LET p == Head(data)
       IN IF off >= p.n THEN Slice(Tail(data), off - p.n, cnt)
          ELSE LET take == Min(p.n - off, cnt)
               IN <<[src |-> p.src, from |-> p.from + off, n |-> take]>>
                  \o Slice(Tail(data), 0, cnt - take)

\* The i-th tensor a reader gets: the blob sliced in manifest order by the
\* declared shapes.
ReadTensor(entries, data, i) ==
  [shape |-> entries[i].shape,
   data |-> Slice(data, DeclaredElements(SubSeq(entries, 1, i - 1)),
                  Prod(entries[i].shape))]

-----------------------------------------------------------------------------
(* Initial state *)

Absent == [kind |-> "absent"]
NoFiles == [n \in FileNames |-> Absent]
NoDetails == [none |-> TRUE]
NoWeights == [none |-> TRUE]
NoPrev == [proc |-> "none", details |-> NoDetails]

\* What get_input_details()[0] / get_output_details()[0] can report.
Float32Model ==
  [input |-> [shape |-> <<1, 70, 70, 1>>, dtype |-> "float32"],
   output |-> [shape |-> <<1, 52>>, dtype |-> "float32"]]
Uint8Model ==
  [input |-> [shape |-> <<1, 64, 64, 3>>, dtype |-> "uint8"],
   output |-> [shape |-> <<1, 52>>, dtype |-> "uint8"]]

ModelFiles ==
  {[state |-> "absent"], [state |-> "malformed"],
   [state |-> "valid", details |-> Float32Model],
   [state |-> "valid", details |-> Uint8Model]}

\* A blob left by something else: 7 elements.
ForeignBlob == [kind |-> "bin", data |-> <<[src |-> 0, from |-> 0, n |-> 7]>>]
\* A blob with as many elements as WeightsManifestB declares.
OldBlobB ==
  [kind |-> "bin",
   data |-> <<[src |-> 0, from |-> 0,
               n |-> DeclaredElements(ManifestWeights(WeightsManifestB))]>>]

PriorJson == {Absent, [kind |-> "text"], JsonDump(ModelJsonA), JsonDump(ModelJsonB)}
PriorBin == {Absent, Tofile(EmptyArray), ForeignBlob, OldBlobB}
PriorStray == {Absent, [kind |-> "text"]}

Snapshot == [outDir |-> outDir, files |-> files]

Init ==
  /\ proc = "none"
  /\ pc = "idle"
  /\ details = NoDetails
  /\ weights = NoWeights
  /\ out = <<>>
  /\ exc = "none"
  /\ prev = NoPrev
  /\ modelFile \in ModelFiles
  /\ outDir \in {"absent", "dir", "file"}
  /\ \/ /\ outDir = "dir"
        /\ \E j \in PriorJson, b \in PriorBin, s \in PriorStray :
             files = [n \in FileNames |->
                        IF n = JsonName THEN j ELSE IF n = BinName THEN b ELSE s]
     \/ /\ outDir # "dir"
        /\ files = NoFiles
  /\ locked \in SUBSET {JsonName, BinName}
  /\ fs0 = Snapshot

Resting == pc \in {"idle", "done", "failed"}

-----------------------------------------------------------------------------
(* The environment, between runs *)

\* The source model file is replaced.
ReplaceModel ==
  /\ Resting
  /\ \E m \in ModelFiles : m # modelFile /\ modelFile' = m
  /\ UNCHANGED <<outDir, files, locked, proc, pc, details, weights, out, exc,
                 fs0, prev>>

\* The permissions of an output path change.
Chmod ==
  /\ Resting
  /\ \E n \in {JsonName, BinName} :
       locked' = IF n \in locked THEN locked \ {n} ELSE locked \cup {n}
  /\ UNCHANGED <<modelFile, outDir, files, proc, pc, details, weights, out,
                 exc, fs0, prev>>

-----------------------------------------------------------------------------
(* Steps shared by the two scripts *)

\* The uncaught exception of the call at pc ends the run.
Raise ==
  /\ pc' = "failed"
  /\ exc' = pc

\* tf.lite.Interpreter(model_path=...), allocate_tensors(), get_*_details()
Interpreter(next) ==
  \/ /\ modelFile.state = "valid"
     /\ details' = modelFile.details
     /\ pc' = next
     /\ exc' = exc
  \/ /\ modelFile.state # "valid"
     /\ details' = details
     /\ Raise

\* os.makedirs('./assets/cards_model', exist_ok=True)
Makedirs(next) ==
  \/ /\ outDir = "absent"
     /\ outDir' = "dir"
     /\ pc' = next
     /\ exc' = exc
  \/ /\ outDir = "dir"
     /\ outDir' = outDir
     /\ pc' = next
     /\ exc' = exc
  \/ /\ outDir = "file"
     /\ outDir' = outDir
     /\ Raise

\* Faulty variant: a failed write removes the descriptor written before it.
WriteFile_Cleanup(name, content, next) ==
  \/ /\ name \notin locked
     /\ files' = [files EXCEPT ![name] = content]
     /\ pc' = next
     /\ exc' = exc
  \/ /\ name \in locked
     /\ files' = [files EXCEPT ![JsonName] = Absent]
     /\ Raise

\* Faulty variant: the blob goes to another path of the directory.
WriteFile_WrongPath(name, content, next) ==
  \/ /\ name \notin locked
     /\ files' = [files EXCEPT
                    ![IF name = BinName THEN StrayName ELSE name] = content]
     /\ pc' = next
     /\ exc' = exc
  \/ /\ name \in locked
     /\ files' = files
     /\ Raise

\* Faulty variant: open(name, 'ab'): a blob is appended to the blob already there.
WriteFile_Append(name, content, next) ==
  \/ /\ name \notin locked
     /\ files' = [files EXCEPT ![name] =
                    IF content.kind = "bin" /\ files[name].kind = "bin"
                    THEN [kind |-> "bin", data |-> files[name].data \o content.data]
                    ELSE content]
     /\ pc' = next
     /\ exc' = exc
  \/ /\ name \in locked
     /\ files' = files
     /\ Raise

\* open(name, 'w') and the write of content
WriteFile(name, content, next) ==
  \/ /\ name \notin locked
     /\ files' = [files EXCEPT ![name] = content]
     /\ pc' = next
     /\ exc' = exc
  \/ /\ name \in locked
     /\ files' = files
     /\ Raise

\* The run has returned from the script's function.
Completed(p, left) ==
  prev' = [proc |-> p, details |-> details, files |-> left,
           after |-> [proc |-> prev.proc, details |-> prev.details]]

-----------------------------------------------------------------------------
(* Procedure A: convert_tflite_to_tfjs *)

A_start ==
  /\ Resting
  /\ proc' = "A"
  /\ pc' = "A_Interpreter"
  /\ details' = NoDetails
  /\ weights' = NoWeights
  /\ out' = <<>>
  /\ exc' = "none"
  /\ fs0' = Snapshot
  /\ UNCHANGED <<modelFile, outDir, files, locked, prev>>

A_Interpreter ==
  /\ pc = "A_Interpreter"
  /\ Interpreter("A_makedirs")
  /\ out' = IF modelFile.state = "valid"
            THEN out \o << <<"Input shape", modelFile.details.input.shape>>,
                           <<"Output shape", modelFile.details.output.shape>>,
                           <<"Input dtype", modelFile.details.input.dtype>>,
                           <<"Output dtype", modelFile.details.output.dtype>> >>
            ELSE out
  /\ UNCHANGED <<modelFile, outDir, files, locked, proc, weights, fs0, prev>>

A_makedirs ==
  /\ pc = "A_makedirs"
  /\ Makedirs("A_dump")
  /\ UNCHANGED <<modelFile, files, locked, proc, details, weights, out, fs0,
                 prev>>

A_dump ==
  /\ pc = "A_dump"
  /\ WriteFile(JsonName, JsonDump(ModelJsonA), "A_tofile")
  /\ UNCHANGED <<modelFile, outDir, locked, proc, details, weights, out, fs0,
                 prev>>

A_tofile ==
  /\ pc = "A_tofile"
  /\ WriteFile(BinName, Tofile(EmptyArray), "done")
  /\ IF pc' = "done"
     THEN /\ out' = out \o
                 << <<"Basic conversion completed!">>,
                    <<"Note: This creates structure but doesn't extract actual weights">>,
                    <<"For full conversion, use Google's official converter">> >>
          /\ Completed("A", files')
     ELSE /\ out' = out
          /\ prev' = prev
  /\ UNCHANGED <<modelFile, outDir, locked, proc, details, weights, fs0>>

-----------------------------------------------------------------------------
(* Procedure B: create_tfjs_model *)

\* The names os.listdir('./assets/cards_model/') returns.
Listdir == {n \in FileNames : files[n] # Absent}

B_start ==
  /\ Resting
  /\ proc' = "B"
  /\ pc' = "B_makedirs"
  /\ details' = NoDetails
  /\ weights' = NoWeights
  /\ out' = << <<"Creating TensorFlow.js model structure...">> >>
  /\ exc' = "none"
  /\ fs0' = Snapshot
  /\ UNCHANGED <<modelFile, outDir, files, locked, prev>>

B_makedirs ==
  /\ pc = "B_makedirs"
  /\ Makedirs("B_Interpreter")
  /\ UNCHANGED <<modelFile, files, locked, proc, details, weights, out, fs0,
                 prev>>

B_Interpreter ==
  /\ pc = "B_Interpreter"
  /\ Interpreter("B_dump")
  /\ out' = IF modelFile.state = "valid"
            THEN out \o << <<"Model info:">>,
                           <<"Input", modelFile.details.input.shape,
                             modelFile.details.input.dtype>>,
                           <<"Output", modelFile.details.output.shape,
                             modelFile.details.output.dtype>> >>
            ELSE out
  /\ UNCHANGED <<modelFile, outDir, files, locked, proc, weights, fs0, prev>>

B_dump ==
  /\ pc = "B_dump"
  /\ WriteFile(JsonName, JsonDump(ModelJsonB), "B_randn")
  /\ UNCHANGED <<modelFile, outDir, locked, proc, details, weights, out, fs0,
                 prev>>

\* Faulty variant: the last tensor is left out of the concatenation.
AllWeights_NoDenseBias(conv_kernel, conv_bias, dense_kernel, dense_bias) ==
  Concatenate(<<Flatten(conv_kernel), Flatten(conv_bias),
                Flatten(dense_kernel)>>)

\* Faulty variant: the biases are concatenated before their kernels.
AllWeights_BiasFirst(conv_kernel, conv_bias, dense_kernel, dense_bias) ==
  Concatenate(<<Flatten(conv_bias), Flatten(conv_kernel),
                Flatten(dense_bias), Flatten(dense_kernel)>>)

\* np.concatenate of the four flattened tensors
AllWeights(conv_kernel, conv_bias, dense_kernel, dense_bias) ==
  Concatenate(<<Flatten(conv_kernel), Flatten(conv_bias),
                Flatten(dense_kernel), Flatten(dense_bias)>>)

B_randn ==
  /\ pc = "B_randn"
  /\ \E seed \in Seeds :
       LET conv_kernel == Randn(<<3, 3, 1, 32>>, seed, 0)
           conv_bias == Randn(<<32>>, seed, NumElements(conv_kernel.data))
           dense_kernel ==
             Randn(<<1152, 52>>, seed,
                   NumElements(conv_kernel.data \o conv_bias.data))
           dense_bias ==
             Randn(<<52>>, seed,
                   NumElements(conv_kernel.data \o conv_bias.data
                               \o dense_kernel.data))
       IN weights' =
            [conv_kernel |-> conv_kernel,
             conv_bias |-> conv_bias,
             dense_kernel |-> dense_kernel,
             dense_bias |-> dense_bias,
             all_weights |->
               AllWeights(conv_kernel, conv_bias, dense_kernel, dense_bias)]
  /\ pc' = "B_tofile"
  /\ UNCHANGED <<modelFile, outDir, files, locked, proc, details, out, exc,
                 fs0, prev>>

B_tofile ==
  /\ pc = "B_tofile"
  /\ WriteFile(BinName, Tofile(weights.all_weights), "B_listdir")
  /\ UNCHANGED <<modelFile, outDir, locked, proc, details, weights, out, fs0,
                 prev>>

\* The listing of the output directory (os.listdir gives no order; the sizes
\* printed beside the names are not tracked).
B_listdir ==
  /\ pc = "B_listdir"
  /\ out' = out \o << <<"Files created:", Listdir>> >>
  /\ pc' = "done"
  /\ Completed("B", files)
  /\ UNCHANGED <<modelFile, outDir, files, locked, proc, details, weights,
                 exc, fs0>>

-----------------------------------------------------------------------------

Next ==
  \/ ReplaceModel
  \/ Chmod
  \/ A_start
  \/ A_Interpreter
  \/ A_makedirs
  \/ A_dump
  \/ A_tofile
  \/ B_start
  \/ B_makedirs
  \/ B_Interpreter
  \/ B_dump
  \/ B_randn
  \/ B_tofile
  \/ B_listdir

Spec == Init /\ [][Next]_vars

-----------------------------------------------------------------------------
(* Properties *)

Json == files[JsonName]
Bin == files[BinName]

\* The run of script p has completed.
Done(p) == pc = "done" /\ proc = p

\* The descriptor script p writes.
Descriptor(p) == IF p = "A" THEN ModelJsonA ELSE ModelJsonB

\* The binding invariant of the artifact pair in directory content f.
Bound(f) ==
  /\ f[JsonName].kind = "json"
  /\ f[BinName].kind = "bin"
  /\ NumElements(f[BinName].data)
       = DeclaredElements(ManifestWeights(f[JsonName].doc.weightsManifest))

\* The run ended in the write of the blob, after the descriptor was written.
FailedAtBlob == pc = "failed" /\ exc \in {"A_tofile", "B_tofile"}

\* The run ended in the metadata probe.
FailedAtProbe == pc = "failed" /\ exc \in {"A_Interpreter", "B_Interpreter"}

\* This step completes a run of the script that completed last before it.
CompletesAgain == pc # "done" /\ pc' = "done" /\ prev.proc = proc

\* The step's run left the structure the last completed run left: the same
\* descriptor and a blob of the same length, for Procedure A the same blob.
SameStructure ==
  /\ files'[JsonName] = prev.files[JsonName]
  /\ Getsize(files'[BinName]) = Getsize(prev.files[BinName])
  /\ proc = "A" => files'[BinName] = prev.files[BinName]

\* C1 as stated: after a completed run of Procedure B the blob is the
\* concatenation of the four generated tensors of shapes (3,3,1,32), (32),
\* (1152,52), (52) and is 4 * (3*3*1*32 + 32 + 1152*52 + 52) = 4 * 60068
\* = 240272 bytes long.
C1_BlobLengthAsStated ==
  Done("B") =>
    /\ Bin.kind = "bin"
    /\ <<weights.conv_kernel.shape, weights.conv_bias.shape,
         weights.dense_kernel.shape, weights.dense_bias.shape>>
         = << <<3, 3, 1, 32>>, <<32>>, <<1152, 52>>, <<52>> >>
    /\ Bin.data = weights.conv_kernel.data \o weights.conv_bias.data
                    \o weights.dense_kernel.data \o weights.dense_bias.data
    /\ Getsize(Bin) = 4 * (3*3*1*32 + 32 + 1152*52 + 52)
    /\ Getsize(Bin) = 4 * 60068
    /\ Getsize(Bin) = 240272

\* C1 as amended: after a completed run of Procedure B the blob is the
\* concatenation of the four generated tensors of shapes (3,3,1,32), (32),
\* (1152,52), (52) and is 4 * (3*3*1*32 + 32 + 1152*52 + 52) = 4 * 60276
\* = 241104 bytes long.
C1_BlobLength ==
  Done("B") =>
    /\ Bin.kind = "bin"
    /\ <<weights.conv_kernel.shape, weights.conv_bias.shape,
         weights.dense_kernel.shape, weights.dense_bias.shape>>
         = << <<3, 3, 1, 32>>, <<32>>, <<1152, 52>>, <<52>> >>
    /\ Bin.data = weights.conv_kernel.data \o weights.conv_bias.data
                    \o weights.dense_kernel.data \o weights.dense_bias.data
    /\ Getsize(Bin) = 4 * (3*3*1*32 + 32 + 1152*52 + 52)
    /\ Getsize(Bin) = 4 * 60276
    /\ Getsize(Bin) = 241104

\* A run of Procedure B has completed and replaced a blob of another length.
C1_Witness ==
  /\ Done("B")
  /\ fs0.files[BinName] = ForeignBlob
  /\ Bin # ForeignBlob

\* C2: whenever the most recent run (of either procedure, after any earlier
\* runs) has completed, the blob has as many elements as the shapes of the
\* manifest's weight entries declare in total.
C2_Binding == pc = "done" => Bound(files)

\* A run of B has completed after a completed run of A, which had completed
\* after a completed run of B.
C2_Witness ==
  /\ Done("B")
  /\ prev.proc = "B"
  /\ prev.after.proc = "A"
  /\ fs0.files[BinName] = Tofile(EmptyArray)

\* C3: after a completed run of Procedure B the manifest lists four entries
\* of shapes [3,3,1,32], [32], [1152,52], [52]; the blob is the concatenation
\* of the flattened generated tensors in that order; the i-th entry's shape is
\* the i-th tensor's; slicing the blob in manifest order by the declared
\* shapes gives back each generated tensor.
C3_ManifestOrder ==
  Done("B") =>
    LET entries == ManifestWeights(Json.doc.weightsManifest)
        tensors == <<weights.conv_kernel, weights.conv_bias,
                     weights.dense_kernel, weights.dense_bias>>
    IN /\ Len(Json.doc.weightsManifest) = 1
       /\ Len(entries) = 4
       /\ [i \in 1..4 |-> entries[i].shape]
            = << <<3, 3, 1, 32>>, <<32>>, <<1152, 52>>, <<52>> >>
       /\ [i \in 1..4 |-> entries[i].name]
            = <<"conv2d/kernel", "conv2d/bias", "dense/kernel", "dense/bias">>
       /\ Bin.data = ConcatData([i \in 1..4 |-> Flatten(tensors[i])])
       /\ \A i \in 1..4 :
            /\ entries[i].shape = tensors[i].shape
            /\ ReadTensor(entries, Bin.data, i) = tensors[i]

\* A run of Procedure B has completed with a blob of generated values.
C3_Witness ==
  /\ Done("B")
  /\ \A i \in 1..Len(Bin.data) : Bin.data[i].src \in Seeds
  /\ Len(Bin.data) = 4

\* C4: after a completed run of Procedure A, whatever the output directory
\* held before, model.json holds a descriptor with an empty node sequence and
\* one shard group with the single path group1-shard1of1.bin and no weights,
\* and group1-shard1of1.bin exists with length zero.
C4_EmptyArtifact ==
  Done("A") =>
    /\ Json.kind = "json"
    /\ Json.doc.modelTopology.node = <<>>
    /\ Len(Json.doc.weightsManifest) = 1
    /\ Json.doc.weightsManifest[1].paths = <<BinName>>
    /\ Json.doc.weightsManifest[1].weights = <<>>
    /\ Bin.kind = "bin"
    /\ Getsize(Bin) = 0

\* A run of Procedure A has completed in a directory that held the descriptor
\* of Procedure B and a blob of the length that descriptor declares.
C4_Witness ==
  /\ Done("A")
  /\ fs0.files[JsonName] = JsonDump(ModelJsonB)
  /\ fs0.files[BinName] = OldBlobB

\* C5: in both procedures a run that ends in the metadata probe leaves the
\* output directory and its files as it found them: nothing is written and
\* the directory is not created.
C5_ProbeFailureLeavesNothing == FailedAtProbe => Snapshot = fs0

\* C6 as stated: a run of either procedure that fails after model.json was
\* written and before the blob is written leaves an inconsistent pair (the
\* blob absent or of another element count than the manifest declares) and
\* the descriptor it wrote.
C6_FailureLeavesInconsistentPair ==
  FailedAtBlob =>
    /\ Json = JsonDump(Descriptor(proc))
    /\ ~Bound(files)

\* C6 as amended: such a run leaves the descriptor it wrote and the blob as
\* the run found it; the pair is inconsistent exactly when that blob is
\* absent or its element count differs from what the manifest just written
\* declares.
C6_FailureKeepsPriorBlob ==
  FailedAtBlob =>
    /\ Json = JsonDump(Descriptor(proc))
    /\ Bin = fs0.files[BinName]
    /\ files[StrayName] = fs0.files[StrayName]
    /\ ~Bound(files) <=>
         \/ fs0.files[BinName].kind # "bin"
         \/ NumElements(fs0.files[BinName].data)
              # DeclaredElements(ManifestWeights(Descriptor(proc).weightsManifest))

\* A run has failed at the write of the blob after replacing another
\* descriptor, and the pair it leaves is inconsistent.
C6_Witness ==
  /\ FailedAtBlob
  /\ fs0.files[JsonName] # Json
  /\ fs0.files[BinName].kind = "bin"
  /\ ~Bound(files)

\* C7 as stated: a completed run of either procedure leaves the directory
\* present with model.json and the blob written and every other file as it
\* was; and after a completed run of Procedure B the directory holds exactly
\* the two files model.json and group1-shard1of1.bin.
C7_ExactlyTwoFiles ==
  /\ pc = "done" =>
       /\ outDir = "dir"
       /\ Json.kind = "json"
       /\ Bin.kind = "bin"
       /\ \A n \in FileNames \ {JsonName, BinName} : files[n] = fs0.files[n]
  /\ Done("B") => Listdir = {JsonName, BinName}

\* C7 as amended: a completed run of either procedure leaves the directory
\* present with model.json and the blob written and every other file as it
\* was; so after a completed run the directory holds model.json,
\* group1-shard1of1.bin and the other files it held before, exactly two
\* files when it held no other file before.
C7_TwoFilesWritten ==
  pc = "done" =>
    /\ outDir = "dir"
    /\ Json = JsonDump(Descriptor(proc))
    /\ Bin.kind = "bin"
    /\ \A n \in FileNames \ {JsonName, BinName} : files[n] = fs0.files[n]
    /\ Listdir = {JsonName, BinName}
                   \cup {n \in FileNames : fs0.files[n] # Absent}
    /\ (\A n \in FileNames \ {JsonName, BinName} : fs0.files[n] = Absent)
         => Listdir = {JsonName, BinName}

\* A run of Procedure B has completed in a directory that held another file.
C7_Witness ==
  /\ Done("B")
  /\ fs0.outDir = "dir"
  /\ fs0.files[StrayName] # Absent

\* C8: a completed run of the procedure that completed last leaves what that
\* run left: the same descriptor and a blob of the same length, for
\* Procedure A the same blob.
C8_Idempotent == [][CompletesAgain => SameStructure]_vars

\* Procedure B has completed twice in a row, with other weight values the
\* second time.
C8_Witness ==
  /\ Done("B")
  /\ prev.proc = "B"
  /\ prev.after.proc = "B"
  /\ fs0.files[JsonName] = JsonDump(ModelJsonB)
  /\ fs0.files[BinName].kind = "bin"
  /\ Getsize(fs0.files[BinName]) = Getsize(Bin)
  /\ fs0.files[BinName] # Bin

\* C9: a completed run on a source model whose probe reports other shapes and
\* dtypes than the probe of the last completed run of the same procedure
\* leaves what that run left: the same descriptor and a blob of the same
\* length, for Procedure A the same blob.
C9_ProbeUnused ==
  [][(CompletesAgain /\ prev.details # details) => SameStructure]_vars

\* Procedure A has completed twice in a row on source models whose probes
\* differ, and the probe's report was printed.
C9_Witness ==
  /\ Done("A")
  /\ prev.proc = "A"
  /\ prev.after.proc = "A"
  /\ prev.after.details # prev.details
  /\ out[1] = <<"Input shape", details.input.shape>>

\* The descriptor of Procedure B is on disk, written by the run.
WrittenB ==
  /\ proc = "B"
  /\ \/ pc \in {"B_randn", "B_tofile", "B_listdir", "done"}
     \/ pc = "failed" /\ exc = "B_tofile"

\* C10: the descriptor Procedure B writes has exactly two nodes: a
\* Placeholder named input with no input references, then an Identity named
\* output whose single input reference dense/BiasAdd names no node of the
\* sequence.
C10_DanglingReference ==
  WrittenB =>
    LET node == Json.doc.modelTopology.node
    IN /\ Len(node) = 2
       /\ node[1].name = "input"
       /\ node[1].op = "Placeholder"
       /\ "input" \notin DOMAIN node[1]
       /\ node[2].name = "output"
       /\ node[2].op = "Identity"
       /\ node[2].input = <<"dense/BiasAdd">>
       /\ \A i \in 1..Len(node) : node[i].name # "dense/BiasAdd"

\* Procedure B has written its descriptor over the descriptor of Procedure A.
C10_Witness ==
  /\ WrittenB
  /\ fs0.files[JsonName] = JsonDump(ModelJsonA)
  /\ Json # fs0.files[JsonName]

====
